---------------------------- MODULE Spec2Model ----------------------------
(***************************************************************************)
(* State-machine model of pkg/insights/insightsclient/insightsclient.go:   *)
(* one Client, its three operations (Send, RecvReport, RecvSCACerts), the  *)
(* lazily cached cluster identity, the per-call transport, the two metric  *)
(* counters, and for Send the upload encoder goroutine, the io.Pipe that   *)
(* couples it to the transport, and the bytesRead channel.                 *)
(***************************************************************************)
EXTENDS Integers, Sequences, FiniteSets, TLC

\* ------------------------------------------------------------------ bounds
\* Longest Source content, in bytes.
MaxLen == 3
\* Size of the copy buffer io.Copy hands to LimitedReader.Read.
CopyBuf == 2

\* The invocations made on the Client in one behaviour, numbered in the
\* order they are made.
Calls == {1, 2}

\* ------------------------------------------------------- program constants
StatusOK == 200
StatusBadRequest == 400
StatusUnauthorized == 401
StatusForbidden == 403
StatusNotFound == 404

\* Status codes a server answers with: one below 200, 200, another 2xx, a
\* 3xx, the four codes the code names, and a 5xx.
Statuses == {100, StatusOK, 204, 302, StatusBadRequest, StatusUnauthorized,
             StatusForbidden, StatusNotFound, 500}

\* The status field when c.client.Do returned an error and no response.
NoResponse == -1

\* strconv.Itoa on the values that become metric labels.
Itoa(n) ==
    CASE n = 0 -> "0"
      [] n = 100 -> "100"
      [] n = 200 -> "200"
      [] n = 204 -> "204"
      [] n = 302 -> "302"
      [] n = 400 -> "400"
      [] n = 401 -> "401"
      [] n = 403 -> "403"
      [] n = 404 -> "404"
      [] n = 500 -> "500"

Labels == {Itoa(n) : n \in Statuses \cup {0}}

Kinds == {"Send", "RecvReport", "RecvSCACerts"}

\* maxBytes arguments handed to New: negative, zero and positive.
MaxBytesArgs == -1..1

\* The default New installs when maxBytes is zero.
DefaultMaxBytes == 10 * 1024 * 1024

\* New: the maxBytes field of the Client it returns.
NewMaxBytes(maxBytesArg) ==
    IF maxBytesArg = 0 THEN DefaultMaxBytes ELSE maxBytesArg

\* Source contents: byte i of a content is i, so a prefix is told from any
\* other selection of bytes.
Contents == {[i \in 1..n |-> i] : n \in 0..MaxLen}

Min(a, b) == IF a < b THEN a ELSE b

\* ------------------------------------------------------------------ errors
\* An error value: its dynamic type, what it says, and the status it carries.
NilError == [type |-> "nil", msg |-> "", code |-> 0]

ErrWaitingForVersion ==
    [type |-> "error", msg |-> "waiting for the cluster version to be loaded", code |-> 0]

PlainError(m, code) == [type |-> "error", msg |-> m, code |-> code]

AuthorizerError(m) == [type |-> "authorizer.Error", msg |-> m, code |-> 0]

HttpError(m, code) == [type |-> "HttpError", msg |-> m, code |-> code]

IsHttpError(err) == err.type = "HttpError"

\* ------------------------------------------------------------------- state
VARIABLES
    maxBytes,                  \* Client.maxBytes
    clusterVersion,            \* Client.clusterVersion: 0 is nil, else the object Get returned
    transport,                 \* Client.client.Transport: 0, else the call that built it
    counterRequestSend,        \* insightsclient_request_send_total, by status_code label
    counterRequestRecvReport,  \* insightsclient_request_recvreport_total, by status_code label
    ops,                       \* invocations made so far
    resolved,                  \* some lookup of the identity has succeeded
    call,                      \* per call: the calling goroutine's position and locals
    prod,                      \* per Send call: the createAndWriteMIMEHeader goroutine
    pipe,                      \* per Send call: the io.Pipe between pw and pr
    bytesRead,                 \* per Send call: the buffered channel of capacity 1
    tr                         \* per Send call: the transport's reading of req.Body

vars == <<maxBytes, clusterVersion, transport, counterRequestSend,
          counterRequestRecvReport, ops, resolved, call, prod, pipe, bytesRead, tr>>

NoResult == [err |-> NilError, val |-> FALSE]

IdleCall ==
    [kind |-> "none", pc |-> "idle",
     cache |-> 0,        \* clusterVersion of the receiver copy (value receivers)
     cv |-> 0,           \* local cv
     ans |-> "none",     \* what the identity source answered this call
     late |-> FALSE,     \* invoked after some call had resolved the identity
     rt |-> 0,           \* HTTP round trips made by this call
     via |-> 0,          \* the transport c.client.Do ran on
     status |-> 0,       \* resp.StatusCode, NoResponse, or 0 before Do returned
     rid |-> FALSE,      \* len(requestID) > 0
     incs |-> <<>>,      \* counter increments made by this call, in order
     body |-> "none",    \* resp.Body: none, open, drained, closed
     res |-> NoResult]   \* what the call returned

IdleProd ==
    [pc |-> "none",       \* the Write the encoder waits in, none before it starts, or done
     content |-> <<>>,    \* what source.Contents holds
     rd |-> 0,            \* bytes the LimitedReader has handed out
     N |-> 0,             \* LimitedReader.N
     n |-> 0,             \* bytes io.Copy has written
     sent |-> FALSE,      \* n has been put on the channel
     cerr |-> "none"]     \* the error io.Copy returned

IdlePipe == [pending |-> <<>>, rclosed |-> FALSE, werr |-> "none"]

IdleTr == [state |-> "idle", got |-> <<>>, rerr |-> "none"]

ZeroCounter == [l \in Labels |-> 0]

Init ==
    /\ maxBytes \in {NewMaxBytes(a) : a \in MaxBytesArgs}
    /\ clusterVersion = 0
    /\ transport = 0
    /\ counterRequestSend = ZeroCounter
    /\ counterRequestRecvReport = ZeroCounter
    /\ ops = 0
    /\ resolved = FALSE
    /\ call = [c \in Calls |-> IdleCall]
    /\ prod = [c \in Calls |-> IdleProd]
    /\ pipe = [c \in Calls |-> IdlePipe]
    /\ bytesRead = [c \in Calls |-> <<>>]
    /\ tr = [c \in Calls |-> IdleTr]



\* ------------------------------------------------------ getClusterVersion
\* Send has a pointer receiver; RecvReport and RecvSCACerts have value
\* receivers and so run on a copy of the Client made at the call.
PointerReceiver(k) == k = "Send"

\* The call returns err (and, when val, a non-nil response or byte slice).
Returned(rec, err, val) ==
    [rec EXCEPT !.pc = "done", !.res = [err |-> err, val |-> val]]

\* What the identity source answers: the config cannot build a client, the
\* ClusterVersion is not found, the Get fails, or it is found.
Answers == {"cfgerr", "notfound", "geterr", "found"}

\* A getClusterVersion that passes the not-found error on to its caller.
GetClusterVersionNotFoundIsError(a, obj) ==
    CASE a = "cfgerr" -> [cv |-> 0, err |-> PlainError("NewForConfig", 0), store |-> FALSE]
      [] a = "notfound" -> [cv |-> 0, err |-> PlainError("Get", 0), store |-> FALSE]
      [] a = "geterr" -> [cv |-> 0, err |-> PlainError("Get", 0), store |-> FALSE]
      [] a = "found" -> [cv |-> obj, err |-> NilError, store |-> TRUE]

\* A getClusterVersion that stores what Get returned before it looks at the
\* error, and so memoizes the empty object of a not-found answer.
GetClusterVersionStoresNotFound(a, obj) ==
    CASE a = "cfgerr" -> [cv |-> 0, err |-> PlainError("NewForConfig", 0), store |-> FALSE]
      [] a = "notfound" -> [cv |-> obj, err |-> NilError, store |-> TRUE]
      [] a = "geterr" -> [cv |-> 0, err |-> PlainError("Get", 0), store |-> FALSE]
      [] a = "found" -> [cv |-> obj, err |-> NilError, store |-> TRUE]

\* getClusterVersion past the cache check: what it returns for answer a (obj
\* is the object a successful Get returns) and whether it stores the object.
GetClusterVersion(a, obj) ==
    CASE a = "cfgerr" -> [cv |-> 0, err |-> PlainError("NewForConfig", 0), store |-> FALSE]
      [] a = "notfound" -> [cv |-> 0, err |-> NilError, store |-> FALSE]
      [] a = "geterr" -> [cv |-> 0, err |-> PlainError("Get", 0), store |-> FALSE]
      [] a = "found" -> [cv |-> obj, err |-> NilError, store |-> TRUE]

\* The first lines of each operation: an error is returned as it is, a nil
\* cv becomes ErrWaitingForVersion, anything else goes on.
AfterGetClusterVersion(rec, r) ==
    IF r.err # NilError THEN Returned(rec, r.err, FALSE)
    ELSE IF r.cv = 0 THEN Returned(rec, ErrWaitingForVersion, FALSE)
    ELSE [rec EXCEPT !.cv = r.cv, !.pc = "prepare"]

\* getClusterVersion, the cache check on the receiver's clusterVersion: a
\* cached identity is returned with no lookup.
CacheCheck(rec, cur) ==
    IF cur # 0
    THEN AfterGetClusterVersion(rec, [cv |-> cur, err |-> NilError, store |-> FALSE])
    ELSE [rec EXCEPT !.pc = "lookup"]

\* The header of the "file" part, the first thing the encoder writes.
Part1Header == <<[t |-> "hdr1", b |-> 0]>>

\* From getClusterVersion's return to the install of the fresh transport,
\* for a call whose locals are rec: an operation that has returned stays
\* returned; prepareRequest (for RecvSCACerts: Token and NewRequest) may
\* fail; Send also makes the channel and the pipe and starts the encoder,
\* whose first Write (the header of the file part) then waits for the reader.
Prepare(c, rec, ok) ==
    IF rec.pc # "prepare"
    THEN /\ call' = [call EXCEPT ![c] = rec]
         /\ UNCHANGED <<transport, prod, pipe>>
    ELSE IF ~ok
    THEN /\ call' = [call EXCEPT ![c] =
                       Returned(rec, PlainError(IF rec.kind = "RecvSCACerts"
                                                THEN "Token" ELSE "prepareRequest", 0), FALSE)]
         /\ UNCHANGED <<transport, prod, pipe>>
    ELSE /\ call' = [call EXCEPT ![c] = [rec EXCEPT !.pc = "do"]]
         /\ transport' = c
         /\ IF rec.kind = "Send"
            THEN /\ prod' = [prod EXCEPT ![c].pc = "part1"]
                 /\ pipe' = [pipe EXCEPT ![c].pending = Part1Header]
            ELSE UNCHANGED <<prod, pipe>>

\* A caller invokes one of the three operations, which begins with the cache
\* check of getClusterVersion and, on a hit, goes on to build the request.
\* Calls may overlap freely up to c.client.Do.
Invoke(c, k, ok) ==
    /\ c \in Calls
    /\ c = ops + 1
    /\ ops' = ops + 1
    /\ Prepare(c, CacheCheck([IdleCall EXCEPT !.kind = k, !.cache = clusterVersion,
                                              !.late = resolved],
                             clusterVersion), ok)
    /\ UNCHANGED <<maxBytes, clusterVersion, counterRequestSend,
                   counterRequestRecvReport, resolved, bytesRead, tr>>

\* getClusterVersion, the lookup and the store into the receiver, and on
\* success the building of the request. The object a Get returns is fresh:
\* it is named after the call that fetched it.
GetCVLookup(c, a, ok) ==
    /\ call[c].pc = "lookup"
    /\ LET r == GetClusterVersion(a, c)
           shared == PointerReceiver(call[c].kind)
           stored == [call[c] EXCEPT !.ans = a,
                        !.cache = IF r.store /\ ~shared THEN r.cv ELSE @]
       IN /\ Prepare(c, AfterGetClusterVersion(stored, r), ok)
          /\ clusterVersion' = IF r.store /\ shared THEN r.cv ELSE clusterVersion
          /\ resolved' = (resolved \/ r.store)
    /\ UNCHANGED <<maxBytes, counterRequestSend,
                   counterRequestRecvReport, ops, bytesRead, tr>>

\* ------------------------------------------------- the upload encoder
\* What travels through the pipe: the header of the "file" part, the bytes
\* of the content, the header of the "metadata" part, the metadata JSON and
\* the closing boundary.
Tok(t, b) == [t |-> t, b |-> b]
DataTokens(chunk) == [i \in 1..Len(chunk) |-> Tok("data", chunk[i])]
Part2Header == <<Tok("hdr2", 0)>>
Metadata == <<Tok("meta", 0)>>
Trailer == <<Tok("trailer", 0)>>

\* LimitedReader.Read with rd bytes of the content consumed and N bytes of
\* allowance left, into a buffer of buf bytes: the bytes it returns, none
\* meaning end of stream. The allowance spent, it ends the stream.
LimitedRead(content, rd, N, buf) ==
    IF N <= 0 THEN <<>>
    ELSE SubSeq(content, rd + 1, rd + Min(Min(buf, N), Len(content) - rd))

\* The allowance the encoder gives its LimitedReader.
CopyLimit(mb) == mb

\* A pipe whose CloseWithError replaces an error it already holds.
CloseWithErrorLastWins(pp, e) == [pp EXCEPT !.werr = e]

\* pw.CloseWithError: the first error stays; a nil error reads as EOF.
CloseWithError(pp, e) == [pp EXCEPT !.werr = IF @ = "none" THEN e ELSE @]

\* A Write on the pipe fails at once when either side has closed it.
WriteClosed(pp) == pp.rclosed \/ pp.werr # "none"

\* The encoder between two blocking writes works on S: its own locals p, the
\* pipe pp and the channel ch.
\* An encoder that closes the pipe without writing the closing boundary.
FinishBodyNoTrailer(S) ==
    [S EXCEPT !.p.pc = "done", !.pp = CloseWithError(S.pp, "EOF")]

\* mw.Close() and the final pw.CloseWithError(mw.Close()).
FinishBody(S) ==
    IF WriteClosed(S.pp)
    THEN [S EXCEPT !.p.pc = "done", !.pp = CloseWithError(S.pp, "ErrClosedPipe")]
    ELSE [S EXCEPT !.p.pc = "close", !.pp.pending = Trailer]

\* io.Copy(fw, strings.NewReader(cm)): a failure closes the pipe with the
\* error and mw.Close() then fails too.
WriteMetadata(S) ==
    IF WriteClosed(S.pp)
    THEN [S EXCEPT !.p.pc = "done", !.pp = CloseWithError(S.pp, "ErrClosedPipe")]
    ELSE [S EXCEPT !.p.pc = "meta", !.pp.pending = Metadata]

\* mw.CreateFormFile("metadata", "metadata.json"): a failure closes the pipe
\* with the error and returns.
CreateMetadataPart(S) ==
    IF WriteClosed(S.pp)
    THEN [S EXCEPT !.p.pc = "done", !.pp = CloseWithError(S.pp, "ErrClosedPipe")]
    ELSE [S EXCEPT !.p.pc = "part2", !.pp.pending = Part2Header]

\* io.Copy has returned n and err: n goes to the channel, an error closes
\* the pipe, and the encoder goes on to the metadata part either way.
CopyReturned(S, err) ==
    LET T == [S EXCEPT !.ch = Append(S.ch, S.p.n), !.p.sent = TRUE, !.p.cerr = err,
                        !.pp = IF err = "none" THEN S.pp ELSE CloseWithError(S.pp, err)]
    IN CreateMetadataPart(T)

\* One turn of io.Copy(fw, r): read from the LimitedReader (the source may
\* fail when it is read), then write what was read to the part.
CopyNext(S, srcOK) ==
    LET chunk == LimitedRead(S.p.content, S.p.rd, S.p.N, CopyBuf) IN
    IF S.p.N > 0 /\ ~srcOK THEN CopyReturned(S, "ErrSource")
    ELSE IF chunk = <<>> THEN CopyReturned(S, "none")
    ELSE IF WriteClosed(S.pp) THEN CopyReturned(S, "ErrClosedPipe")
    ELSE [S EXCEPT !.p.pc = "copy", !.p.rd = @ + Len(chunk), !.p.N = @ - Len(chunk),
                    !.pp.pending = DataTokens(chunk)]

\* An encoder that tries a failed write again and again.
WriteFailedRetries(S) == S

\* The blocked write has returned with an error: what the encoder does then.
WriteFailed(S) ==
    LET T == [S EXCEPT !.pp.pending = <<>>] IN
    CASE S.p.pc = "part1" ->
           [T EXCEPT !.p.pc = "done", !.pp = CloseWithError(T.pp, "ErrClosedPipe")]
      [] S.p.pc = "copy" -> CopyReturned(T, "ErrClosedPipe")
      [] S.p.pc = "part2" ->
           [T EXCEPT !.p.pc = "done", !.pp = CloseWithError(T.pp, "ErrClosedPipe")]
      [] S.p.pc = "meta" -> FinishBody([T EXCEPT !.pp = CloseWithError(T.pp, "ErrClosedPipe")])
      [] S.p.pc = "close" ->
           [T EXCEPT !.p.pc = "done", !.pp = CloseWithError(T.pp, "ErrClosedPipe")]

\* The blocked write has returned with all its bytes taken. After the first
\* one the encoder wraps source.Contents, which holds content, in a
\* LimitedReader and starts copying.
WriteSucceeded(S, srcOK, content) ==
    CASE S.p.pc = "part1" ->
           CopyNext([S EXCEPT !.p.N = CopyLimit(maxBytes), !.p.content = content], srcOK)
      [] S.p.pc = "copy" -> CopyNext([S EXCEPT !.p.n = S.p.rd], srcOK)
      [] S.p.pc = "part2" -> WriteMetadata(S)
      [] S.p.pc = "meta" -> FinishBody(S)
      [] S.p.pc = "close" ->
           [S EXCEPT !.p.pc = "done", !.pp = CloseWithError(S.pp, "EOF")]

ProducerBlocked(c) == prod[c].pc \in {"part1", "copy", "part2", "meta", "close"}

\* The pipe is synchronous: the transport's Read takes the bytes of the
\* pending Write, the Write returns, and createAndWriteMIMEHeader runs on to
\* its next Write, or to its end.
Transfer(c, srcOK, content) ==
    /\ tr[c].state = "reading"
    /\ ProducerBlocked(c)
    /\ pipe[c].pending # <<>>
    /\ ~pipe[c].rclosed
    /\ LET S == [p |-> prod[c], pp |-> [pipe[c] EXCEPT !.pending = <<>>], ch |-> bytesRead[c]]
           T == WriteSucceeded(S, srcOK, content)
       IN /\ tr' = [tr EXCEPT ![c].got = @ \o pipe[c].pending]
          /\ prod' = [prod EXCEPT ![c] = T.p]
          /\ pipe' = [pipe EXCEPT ![c] = T.pp]
          /\ bytesRead' = [bytesRead EXCEPT ![c] = T.ch]
    /\ UNCHANGED <<maxBytes, clusterVersion, transport, counterRequestSend,
                   counterRequestRecvReport, ops, resolved, call>>

\* The reading side has closed the pipe: the pending Write returns
\* io.ErrClosedPipe and createAndWriteMIMEHeader runs on to its end.
ProducerWriteFails(c) ==
    /\ ProducerBlocked(c)
    /\ pipe[c].pending # <<>>
    /\ pipe[c].rclosed
    /\ LET T == WriteFailed([p |-> prod[c], pp |-> pipe[c], ch |-> bytesRead[c]])
       IN /\ prod' = [prod EXCEPT ![c] = T.p]
          /\ pipe' = [pipe EXCEPT ![c] = T.pp]
          /\ bytesRead' = [bytesRead EXCEPT ![c] = T.ch]
    /\ UNCHANGED <<maxBytes, clusterVersion, transport, counterRequestSend,
                   counterRequestRecvReport, ops, resolved, call, tr>>

\* The transport's Read meets the close of the writing side: EOF, or the
\* error the encoder closed the pipe with. The transport then closes the body.
TransportReadEnd(c) ==
    /\ tr[c].state = "reading"
    /\ pipe[c].pending = <<>>
    /\ pipe[c].werr # "none"
    /\ tr' = [tr EXCEPT ![c].state = "closed", ![c].rerr = pipe[c].werr]
    /\ pipe' = [pipe EXCEPT ![c].rclosed = TRUE]
    /\ UNCHANGED <<maxBytes, clusterVersion, transport, counterRequestSend,
                   counterRequestRecvReport, ops, resolved, call, prod, bytesRead>>

\* RoundTrip always closes the request body, possibly in another goroutine
\* after it has returned: the exchange failed or the response came early.
TransportAbort(c) ==
    /\ tr[c].state = "reading"
    /\ call[c].pc \in {"waitBytes", "done"}
    /\ tr' = [tr EXCEPT ![c].state = "closed"]
    /\ pipe' = [pipe EXCEPT ![c].rclosed = TRUE]
    /\ UNCHANGED <<maxBytes, clusterVersion, transport, counterRequestSend,
                   counterRequestRecvReport, ops, resolved, call, prod, bytesRead>>

\* -------------------------------------------------------- c.client.Do
\* A call whose exchange has started and whose frame the caller still holds.
InFlight(d) == call[d].pc \in {"exchange", "waitBytes"} \/ (call[d].pc = "done" /\ call[d].rt > 0)

\* c.client.Do starts: it runs on whatever transport the shared http.Client
\* holds at that moment, and for Send starts reading the request body. The
\* model runs the exchanges of different calls one after the other.
DoStart(c) ==
    /\ call[c].pc = "do"
    /\ \A d \in Calls : ~InFlight(d)
    /\ call' = [call EXCEPT ![c].pc = "exchange", ![c].rt = @ + 1, ![c].via = transport]
    /\ tr' = IF call[c].kind = "Send" THEN [tr EXCEPT ![c].state = "reading"] ELSE tr
    /\ UNCHANGED <<maxBytes, clusterVersion, transport, counterRequestSend,
                   counterRequestRecvReport, ops, resolved, prod, pipe, bytesRead>>

\* A caller of c.client.Do that tries once more after a transport failure.
AfterDoRetry(rec, o) ==
    IF o = NoResponse /\ rec.rt < 2
    THEN [rec EXCEPT !.pc = "do"]
    ELSE [rec EXCEPT !.pc = "resp", !.status = o,
                     !.body = IF o = NoResponse THEN "none" ELSE "open"]

\* c.client.Do has returned o, a status or no response: every operation
\* goes on to look at err and resp, whatever o is, and never calls Do again.
AfterDo(rec, o) ==
    [rec EXCEPT !.pc = "resp", !.status = o,
                !.body = IF o = NoResponse THEN "none" ELSE "open"]

\* What c.client.Do may return: a response may come before the request body
\* has been read to its end; a request body that failed to read gives none.
DoMayReturn(c, o) ==
    /\ call[c].pc = "exchange"
    /\ o \in Statuses \cup {NoResponse}
    /\ tr[c].rerr \in {"none", "EOF"} \/ o = NoResponse

\* ------------------------------------------------------ classification
Inc(counter, label) == [counter EXCEPT ![label] = @ + 1]

\* The label a counter is incremented under.
StatusLabel(st) == IF st = NoResponse THEN "0" ELSE Itoa(st)

\* Send, the last check: any status outside [200,299] is an error carrying
\* the status; what is left is success.
SendErrorRange(status) ==
    IF status >= 300 \/ status < 200
    THEN PlainError("gateway server reported unexpected error code", status)
    ELSE NilError

\* A Send without the check for 400.
SendErrorBadRequestMissing(status) == SendErrorRange(status)

\* Send, the check for 400, made before the range check.
SendErrorBadRequest(status) ==
    IF status = StatusBadRequest THEN PlainError("gateway server bad request", 0)
    ELSE SendErrorRange(status)

\* A Send without the checks for 401 and 403.
SendErrorNoAuth(status) == SendErrorBadRequest(status)

\* Send: the error for a response of the given status; 401 and 403 are
\* checked first.
SendError(status) ==
    IF status = StatusUnauthorized
    THEN AuthorizerError("not enabled for remote support or your token has expired")
    ELSE IF status = StatusForbidden
    THEN AuthorizerError("not enabled for remote support")
    ELSE SendErrorBadRequest(status)

\* A deferred function that closes resp.Body without reading it.
SendDeferredCloseOnly(rec) == [rec EXCEPT !.body = "closed"]

\* Send, the deferred function registered once a response is there: it
\* reads resp.Body to its end and closes it, on every return that follows.
SendDeferred(rec) == [rec EXCEPT !.body = "drained+closed"]

\* Send from the return of c.client.Do: the counter, the classification, and
\* either the return (the deferred function drains and closes the body) or,
\* for a success with a request id, the wait on bytesRead.
SendDoReturn(c, o, rid) ==
    /\ call[c].kind = "Send"
    /\ DoMayReturn(c, o)
    /\ LET got == AfterDo(call[c], o)
           label == StatusLabel(o)
           rec == [got EXCEPT !.incs = Append(@, <<"send", label>>)]
       IN IF got.pc # "resp"
          THEN /\ call' = [call EXCEPT ![c] = got]
               /\ UNCHANGED counterRequestSend
          ELSE /\ counterRequestSend' = Inc(counterRequestSend, label)
               /\ call' = [call EXCEPT ![c] =
                    IF o = NoResponse
                    THEN Returned(rec, PlainError("unable to build request", 0), FALSE)
                    ELSE IF SendError(o) # NilError
                    THEN Returned(SendDeferred(rec), SendError(o), FALSE)
                    ELSE IF rid
                    THEN [rec EXCEPT !.rid = TRUE, !.pc = "waitBytes"]
                    ELSE Returned(SendDeferred(rec), NilError, FALSE)]
    /\ UNCHANGED <<maxBytes, clusterVersion, transport, counterRequestRecvReport,
                   ops, resolved, prod, pipe, bytesRead, tr>>

\* Send, the receive from bytesRead for the log line, then the return.
SendRecvBytes(c) ==
    /\ call[c].pc = "waitBytes"
    /\ bytesRead[c] # <<>>
    /\ bytesRead' = [bytesRead EXCEPT ![c] = Tail(@)]
    /\ call' = [call EXCEPT ![c] = Returned(SendDeferred(@), NilError, FALSE)]
    /\ UNCHANGED <<maxBytes, clusterVersion, transport, counterRequestSend,
                   counterRequestRecvReport, ops, resolved, prod, pipe, tr>>

\* A RecvReport that takes every status in [200,299] for success.
RecvReportTailAny2xx(status) ==
    IF status >= 300 \/ status < 200
    THEN [err |-> PlainError("gateway server reported unexpected error code", status),
          val |-> FALSE, inc |-> TRUE, body |-> "drained"]
    ELSE [err |-> NilError, val |-> TRUE, inc |-> FALSE, body |-> "open"]

\* RecvReport, the last checks: for a response of the given status, the
\* error and whether the response is returned, whether the branch increments
\* the counter, and the state it leaves the response body in.
RecvReportTail(status) ==
    IF status >= 300 \/ status < 200
    THEN [err |-> PlainError("gateway server reported unexpected error code", status),
          val |-> FALSE, inc |-> TRUE, body |-> "drained"]
    ELSE IF status = StatusOK
    THEN [err |-> NilError, val |-> TRUE, inc |-> FALSE, body |-> "open"]
    ELSE [err |-> PlainError("Report response status code", status), val |-> FALSE,
          inc |-> FALSE, body |-> "open"]

\* A RecvReport without the check for 404.
RecvReportNotFoundMissing(status) == RecvReportTail(status)

\* RecvReport, the check for 404: a typed HttpError.
RecvReportNotFound(status) ==
    IF status = StatusNotFound
    THEN [err |-> HttpError("not found", status), val |-> FALSE,
          inc |-> TRUE, body |-> "drained"]
    ELSE RecvReportTail(status)

\* RecvReport, the check for 400.
RecvReportBadRequest(status) ==
    IF status = StatusBadRequest
    THEN [err |-> PlainError("gateway server bad request", 0), val |-> FALSE,
          inc |-> TRUE, body |-> "drained"]
    ELSE RecvReportNotFound(status)

\* RecvReport, the classification of a response; 401 and 403 come first and
\* do not read the body.
RecvReportResult(status) ==
    IF status = StatusUnauthorized
    THEN [err |-> AuthorizerError("not enabled for remote support or your token has expired"),
          val |-> FALSE, inc |-> TRUE, body |-> "open"]
    ELSE IF status = StatusForbidden
    THEN [err |-> AuthorizerError("not enabled for remote support"),
          val |-> FALSE, inc |-> TRUE, body |-> "open"]
    ELSE RecvReportBadRequest(status)

\* RecvReport from the return of c.client.Do to its own return.
RecvReportDoReturn(c, o) ==
    /\ call[c].kind = "RecvReport"
    /\ DoMayReturn(c, o)
    /\ LET got == AfterDo(call[c], o)
           r == RecvReportResult(o)
           label == StatusLabel(o)
           counted == o = NoResponse \/ r.inc
           rec == [got EXCEPT !.incs = IF counted THEN Append(@, <<"recvreport", label>>) ELSE @]
       IN IF got.pc # "resp"
          THEN /\ call' = [call EXCEPT ![c] = got]
               /\ UNCHANGED counterRequestRecvReport
          ELSE /\ counterRequestRecvReport' =
                    IF counted THEN Inc(counterRequestRecvReport, label)
                    ELSE counterRequestRecvReport
               /\ call' = [call EXCEPT ![c] =
                    IF o = NoResponse
                    THEN Returned(rec, PlainError("transport", 0), FALSE)
                    ELSE Returned([rec EXCEPT !.body = r.body], r.err, r.val)]
    /\ UNCHANGED <<maxBytes, clusterVersion, transport, counterRequestSend,
                   ops, resolved, prod, pipe, bytesRead, tr>>

\* ocmErrorMessage: an HttpError carrying the status.
OcmErrorMessage(status) == HttpError("OCM API returned HTTP", status)

\* A RecvSCACerts that takes the range of Send, [200,299], for success.
RecvSCACertsErrorSendRange(status) ==
    IF status >= 300 \/ status < 200 THEN OcmErrorMessage(status) ELSE NilError

\* RecvSCACerts: the error for a response of the given status.
RecvSCACertsError(status) ==
    IF status > 399 \/ status < 200 THEN OcmErrorMessage(status) ELSE NilError

\* RecvSCACerts from the return of c.client.Do to its own return; reading
\* the whole body may fail.
RecvSCACertsDoReturn(c, o, readOK) ==
    /\ call[c].kind = "RecvSCACerts"
    /\ DoMayReturn(c, o)
    /\ LET got == AfterDo(call[c], o) IN
       call' = [call EXCEPT ![c] =
          IF got.pc # "resp" THEN got
          ELSE IF o = NoResponse
          THEN Returned(got, PlainError("unable to retrieve SCA certs data", 0), FALSE)
          ELSE IF RecvSCACertsError(o) # NilError
          THEN Returned([got EXCEPT !.body = "drained"], RecvSCACertsError(o), FALSE)
          ELSE IF readOK
          THEN Returned([got EXCEPT !.body = "drained+closed"], NilError, TRUE)
          ELSE Returned([got EXCEPT !.body = "closed"], PlainError("ReadAll", 0), TRUE)]
    /\ UNCHANGED <<maxBytes, clusterVersion, transport, counterRequestSend,
                   counterRequestRecvReport, ops, resolved, prod, pipe, bytesRead, tr>>

\* ---------------------------------------------------------- the caller
\* The caller has taken what the call returned and both goroutines Send
\* started have ended: nothing refers to the call's locals any more.
Retire(c) ==
    /\ call[c].pc = "done"
    /\ ~ProducerBlocked(c)
    /\ tr[c].state # "reading"
    /\ call' = [call EXCEPT ![c] = [IdleCall EXCEPT !.pc = "retired"]]
    /\ prod' = [prod EXCEPT ![c] = IdleProd]
    /\ pipe' = [pipe EXCEPT ![c] = IdlePipe]
    /\ bytesRead' = [bytesRead EXCEPT ![c] = <<>>]
    /\ tr' = [tr EXCEPT ![c] = IdleTr]
    /\ UNCHANGED <<maxBytes, clusterVersion, transport, counterRequestSend,
                   counterRequestRecvReport, ops, resolved>>

\* ------------------------------------------------------- specification
Next ==
    \/ \E c \in Calls, k \in Kinds, ok \in BOOLEAN : Invoke(c, k, ok)
    \/ \E c \in Calls, a \in Answers, ok \in BOOLEAN : GetCVLookup(c, a, ok)
    \/ \E c \in Calls : DoStart(c)
    \/ \E c \in Calls, o \in Statuses \cup {NoResponse}, rid \in BOOLEAN : SendDoReturn(c, o, rid)
    \/ \E c \in Calls : SendRecvBytes(c)
    \/ \E c \in Calls, o \in Statuses \cup {NoResponse} : RecvReportDoReturn(c, o)
    \/ \E c \in Calls, o \in Statuses \cup {NoResponse}, readOK \in BOOLEAN :
         RecvSCACertsDoReturn(c, o, readOK)
    \/ \E c \in Calls, srcOK \in BOOLEAN :
         \E content \in (IF prod[c].pc = "part1" THEN Contents ELSE {prod[c].content}) :
            Transfer(c, srcOK, content)
    \/ \E c \in Calls : ProducerWriteFails(c)
    \/ \E c \in Calls : TransportReadEnd(c)
    \/ \E c \in Calls : TransportAbort(c)
    \/ \E c \in Calls : Retire(c)

Spec == Init /\ [][Next]_vars

\* The scheduling the code can rely on: a goroutine that can run does run,
\* so a Write that can return an error returns it; and a RoundTripper
\* always closes the request body, also after an error or an early response.
Fairness ==
    \A c \in Calls : WF_vars(ProducerWriteFails(c)) /\ WF_vars(TransportAbort(c))

\* A Client on which one call is made: the run of one call from its
\* invocation to the end of the goroutines it started.
InitOne ==
    /\ maxBytes \in {NewMaxBytes(a) : a \in MaxBytesArgs}
    /\ clusterVersion = 0
    /\ transport = 0
    /\ counterRequestSend = ZeroCounter
    /\ counterRequestRecvReport = ZeroCounter
    /\ ops = Cardinality(Calls) - 1
    /\ resolved = FALSE
    /\ call = [c \in Calls |-> IdleCall]
    /\ prod = [c \in Calls |-> IdleProd]
    /\ pipe = [c \in Calls |-> IdlePipe]
    /\ bytesRead = [c \in Calls |-> <<>>]
    /\ tr = [c \in Calls |-> IdleTr]

LiveSpec == InitOne /\ [][Next]_vars /\ Fairness

\* ------------------------------------------------------------- claims
Done(c) == call[c].pc = "done"

\* The call made an HTTP exchange and has returned.
Exchanged(c) == Done(c) /\ call[c].rt > 0

\* The bytes of the file part the transport has been handed.
PrimaryPart(got) ==
    LET d == SelectSeq(got, LAMBDA x : x.t = "data") IN [i \in 1..Len(d) |-> d[i].b]

\* C1: a call whose lookup the identity source answered with "not found"
\* has returned, and what it returned is exactly ErrWaitingForVersion and no
\* value, whichever of the three operations it is.
C1_NotFoundIsNotReady ==
    \A c \in Calls :
        call[c].ans = "notfound" =>
            /\ Done(c)
            /\ call[c].res = [err |-> ErrWaitingForVersion, val |-> FALSE]
            /\ call[c].rt = 0

C1_Witness ==
    \E c, d \in Calls :
        /\ call[c].kind = "Send" /\ call[c].ans = "notfound" /\ Done(c)
        /\ call[d].kind = "RecvSCACerts" /\ call[d].ans = "notfound" /\ Done(d)

\* C2: a call invoked after some operation on the Client has resolved the
\* identity makes no lookup against the identity source.
C2_LaterCallsUseMemo ==
    \A c \in Calls :
        call[c].late => call[c].pc # "lookup" /\ call[c].ans = "none"

\* C3: a Send or RecvReport call that made the HTTP exchange and has
\* returned has incremented its own counter exactly once, under the label
\* of the status it observed ("0" without a response), and nothing else.
C3_CountedOncePerExchange ==
    \A c \in Calls :
        Exchanged(c) /\ call[c].kind \in {"Send", "RecvReport"} =>
            call[c].incs = << <<IF call[c].kind = "Send" THEN "send" ELSE "recvreport",
                                StatusLabel(call[c].status)>> >>

\* C4: a Send or RecvReport call that got status 401 or 403 returned an
\* authorizer.Error.
C4_AuthStatusIsAuthError ==
    \A c \in Calls :
        /\ Done(c)
        /\ call[c].kind \in {"Send", "RecvReport"}
        /\ call[c].status \in {StatusUnauthorized, StatusForbidden}
        => call[c].res.err.type = "authorizer.Error" /\ ~call[c].res.val

C4_Witness ==
    \E c, d \in Calls :
        /\ Done(c) /\ call[c].kind = "RecvReport" /\ call[c].status = StatusForbidden
        /\ call[d].pc = "retired" /\ counterRequestSend["401"] = 1

\* C5: on status 404 RecvReport returned an HttpError whose StatusCode is
\* 404, and Send returned the unexpected-status error, which is no HttpError.
C5_NotFoundAsymmetry ==
    \A c \in Calls :
        Done(c) /\ call[c].status = StatusNotFound =>
            /\ call[c].kind = "RecvReport" =>
                 IsHttpError(call[c].res.err) /\ call[c].res.err.code = StatusNotFound
            /\ call[c].kind = "Send" =>
                 /\ ~IsHttpError(call[c].res.err)
                 /\ call[c].res.err =
                      PlainError("gateway server reported unexpected error code", StatusNotFound)

C5_Witness ==
    \E c, d \in Calls :
        /\ Done(c) /\ call[c].kind = "RecvReport" /\ call[c].status = StatusNotFound
        /\ IsHttpError(call[c].res.err)
        /\ call[d].pc = "retired" /\ counterRequestSend["404"] = 1

\* C6: a RecvReport call that has returned gave a response and a nil error
\* exactly when the status was 200, and otherwise no response and an error.
C6_RecvReportSuccessIs200 ==
    \A c \in Calls :
        Done(c) /\ call[c].kind = "RecvReport" =>
            IF call[c].status = StatusOK
            THEN call[c].res.val /\ call[c].res.err = NilError
            ELSE ~call[c].res.val /\ call[c].res.err # NilError

C6_Witness ==
    \E c \in Calls :
        /\ Done(c) /\ call[c].kind = "RecvReport" /\ call[c].status = 204
        /\ ~call[c].res.val /\ call[c].res.err # NilError

\* C7: a Send call that has returned gave nil exactly when it got a response
\* with a status in [200,299]; 401 and 403 gave the authorization error,
\* 400 the bad-request error, and every other status outside [200,299] the
\* unexpected-status error carrying that status.
C7_SendClassification ==
    \A c \in Calls :
        Done(c) /\ call[c].kind = "Send" =>
            LET st == call[c].status
                err == call[c].res.err
            IN /\ err = NilError <=> st \in 200..299
               /\ st \in {StatusUnauthorized, StatusForbidden} => err.type = "authorizer.Error"
               /\ st = StatusBadRequest => err = PlainError("gateway server bad request", 0)
               /\ st \in Statuses \ (200..299)
                  /\ st \notin {StatusBadRequest, StatusUnauthorized, StatusForbidden}
                  => err = PlainError("gateway server reported unexpected error code", st)

C7_Witness ==
    \E c, d \in Calls :
        /\ Done(c) /\ call[c].kind = "Send" /\ call[c].status = StatusBadRequest
        /\ call[d].pc = "retired" /\ counterRequestSend["204"] = 1

\* C8: once the encoder has copied the content without an error, the file
\* part it wrote is the first min(content length, ceiling) bytes of the
\* content: the whole content when it fits, exactly ceiling bytes when not.
C8_PrimaryPartIsPrefix ==
    \A c \in Calls :
        prod[c].sent /\ prod[c].cerr = "none" =>
            LET primary == PrimaryPart(tr[c].got)
                content == prod[c].content
            IN /\ Len(primary) = Min(Len(content), maxBytes)
               /\ primary = SubSeq(content, 1, Min(Len(content), maxBytes))
               /\ Len(content) > maxBytes => Len(primary) = maxBytes

\* C9: the byte ceiling the Client holds is strictly positive, and New
\* turns a maxBytes of zero into 10 MiB.
C9_CeilingPositive ==
    maxBytes > 0 /\ NewMaxBytes(0) = 10485760

\* C10: no call makes more than one HTTP round trip: once c.client.Do has
\* been called, the call never stands before c.client.Do again.
C10_OneRoundTrip ==
    \A c \in Calls :
        /\ call[c].rt <= 1
        /\ call[c].pc = "do" => call[c].rt = 0

C10_Witness ==
    \E c \in Calls : Done(c) /\ call[c].rt = 1 /\ call[c].status = NoResponse

\* C11: a RecvSCACerts call that got a response returned an HttpError
\* carrying the status when the status lies outside [200,399], 401 and 403
\* included, and otherwise no HttpError and no authorizer.Error: the body it
\* read, with the error of the read if the read failed.
C11_RecvSCACertsHttpError ==
    \A c \in Calls :
        Done(c) /\ call[c].kind = "RecvSCACerts" /\ call[c].status \in Statuses =>
            IF call[c].status \notin 200..399
            THEN /\ IsHttpError(call[c].res.err)
                 /\ call[c].res.err.code = call[c].status
                 /\ ~call[c].res.val
            ELSE /\ call[c].res.err.type \notin {"HttpError", "authorizer.Error"}
                 /\ call[c].res.val
                 /\ call[c].res.err = NilError => call[c].body = "drained+closed"

C11_Witness ==
    \E c \in Calls :
        /\ Done(c) /\ call[c].kind = "RecvSCACerts" /\ call[c].status = 302
        /\ call[c].res = [err |-> NilError, val |-> TRUE]

\* C12: a Send call that got a response and has returned has read the
\* response body to its end and closed it, whatever the status.
C12_SendDrainsAndCloses ==
    \A c \in Calls :
        Done(c) /\ call[c].kind = "Send" /\ call[c].status \in Statuses =>
            call[c].body = "drained+closed"

C12_Witness ==
    \E c \in Calls :
        /\ Done(c) /\ call[c].kind = "Send" /\ call[c].status = StatusOK
        /\ call[c].rid /\ call[c].body = "drained+closed"

\* C13: a RecvReport call that got a response other than 200, or a
\* RecvSCACerts call that got a status outside [200,399], has read the
\* response body to its end when it returns its error.
C13_ErrorPathsDrain ==
    \A c \in Calls :
        /\ Done(c) /\ call[c].status \in Statuses
        /\ \/ call[c].kind = "RecvReport" /\ call[c].status # StatusOK
           \/ call[c].kind = "RecvSCACerts" /\ call[c].status \notin 200..399
        => call[c].body \in {"drained", "drained+closed"}

\* What the encoder has written or is writing to the pipe.
Written(c) == tr[c].got \o pipe[c].pending

\* The bytes of the content the LimitedReader lets through.
Allowed(c) == SubSeq(prod[c].content, 1, Min(Len(prod[c].content), maxBytes))

\* C14: when a byte of the metadata part is written, the copy of the content
\* has ended without error and the file part holds all the bytes the ceiling
\* allows; when the pipe is closed cleanly, the transport has been handed the
\* file part, the metadata part and the closing boundary, in this order.
C14_EncoderOrder ==
    \A c \in Calls :
        /\ (\E i \in DOMAIN Written(c) : Written(c)[i].t \in {"hdr2", "meta"}) =>
              /\ prod[c].sent /\ prod[c].cerr = "none"
              /\ PrimaryPart(tr[c].got) = Allowed(c)
        /\ pipe[c].werr = "EOF" =>
              /\ prod[c].pc = "done"
              /\ tr[c].got = Part1Header \o DataTokens(Allowed(c)) \o Part2Header
                                \o Metadata \o Trailer

C14_Witness ==
    \E c \in Calls :
        /\ pipe[c].werr = "EOF" /\ Len(prod[c].content) = 3
        /\ Len(PrimaryPart(tr[c].got)) = 1

\* C15: an encoder that has ended without the closing boundary handed over
\* has closed the pipe with an error, never cleanly; an error of the content
\* copy, the first step that can fail with an error of its own, stays the
\* pipe's error whatever fails after it; and the error the transport's read
\* of the request body ended with is the pipe's error.
C15_FirstErrorReachesReader ==
    \A c \in Calls :
        /\ prod[c].pc = "done" /\ (\A i \in DOMAIN tr[c].got : tr[c].got[i].t # "trailer")
             => pipe[c].werr \notin {"none", "EOF"}
        /\ prod[c].cerr # "none" => pipe[c].werr = prod[c].cerr
        /\ tr[c].rerr # "none" => tr[c].rerr = pipe[c].werr

C15_Witness ==
    \E c \in Calls :
        /\ prod[c].pc = "done" /\ prod[c].cerr = "ErrSource"
        /\ tr[c].state = "closed" /\ tr[c].rerr = "ErrSource"

\* C16: the byte count is on the channel, or has been, only once the
\* encoder has ended, the metadata part written and the pipe closed.
C16_CountAfterEncoding ==
    \A c \in Calls :
        prod[c].sent => prod[c].pc = "done" /\ pipe[c].werr # "none"

\* C17: a producer blocked in a write on a pipe whose reading side has been
\* closed ends, and a producer still blocked when its Send call has returned
\* does not stay blocked.
C17_ProducerUnblocks ==
    \A c \in Calls :
        /\ (pipe[c].rclosed /\ ProducerBlocked(c)) ~> ~ProducerBlocked(c)
        /\ (Done(c) /\ ProducerBlocked(c)) ~> ~ProducerBlocked(c)

C17_Witness ==
    \E c \in Calls :
        /\ Done(c) /\ call[c].status = NoResponse
        /\ prod[c].pc = "done" /\ pipe[c].rclosed /\ pipe[c].werr = "ErrClosedPipe"
        /\ tr[c].rerr = "none"

\* C18: a cached identity is never written again: once Client.clusterVersion
\* is not nil, no step changes it.
C18_CacheWrittenOnce ==
    [][clusterVersion # 0 => clusterVersion' = clusterVersion]_vars

\* C19: a call whose c.client.Do has started runs it on the transport this
\* very call installed.
C19_OwnTransport ==
    \A c \in Calls :
        call[c].rt > 0 => call[c].via = c

\* C20: a Send call that waits for the byte count can still get it: the
\* count is on the channel, or the encoder has yet to reach the line that
\* sends it.
C20_SendGetsCount ==
    \A c \in Calls :
        call[c].pc = "waitBytes" =>
            \/ bytesRead[c] # <<>>
            \/ prod[c].pc \in {"part1", "copy"} /\ ~prod[c].sent

\* The identity source did not give this call the identity.
NoIdentity(rec) == rec.ans \in {"cfgerr", "notfound", "geterr"}

\* C21: a lookup answered with "not found" or an error stores nothing, in
\* the Client or in the receiver's copy; as long as no lookup has succeeded
\* the cached identity is nil and a call that is invoked goes to the identity
\* source; and a call the source then gives the identity does not return
\* ErrWaitingForVersion.
C21_FailureNotMemoized ==
    /\ [][\A c \in Calls :
            NoIdentity(call'[c]) /\ ~NoIdentity(call[c]) =>
                /\ clusterVersion' = clusterVersion
                /\ call'[c].cache = call[c].cache /\ call'[c].cv = 0]_vars
    /\ [](\A c \in Calls :
            /\ ~resolved => clusterVersion = 0
            /\ call[c].kind # "none" /\ call[c].cache = 0 /\ call[c].ans = "none"
                 => call[c].pc = "lookup"
            /\ call[c].ans = "found" =>
                 call[c].cv # 0 /\ call[c].res.err # ErrWaitingForVersion)

C21_Witness ==
    \E c, d \in Calls :
        /\ c < d /\ Done(c) /\ call[c].ans = "notfound"
        /\ ~call[d].late /\ call[d].ans = "found" /\ call[d].pc = "do"

=============================================================================
